---------------------------- MODULE Spec2Model ----------------------------
(***************************************************************************)
(* Model of core/fee_calculator.py (class FeeCalculator),                  *)
(* kelly_criterion.py (the Kelly sizing functions) and circuit_breaker.py  *)
(* (class CircuitBreaker).                                                 *)
(*                                                                         *)
(* Numbers.  The program computes with Python floats; the model computes   *)
(* with exact decimal fixed point: a price, a rate or a currency amount x  *)
(* is the integer x * One (One = 10000, four decimals), so 0.07 is 700 and *)
(* $0.45 is 4500.  A quantity (number of contracts) and a 30-day volume    *)
(* (dollars, only ever compared with the tier thresholds) are plain        *)
(* integers.  Every product the code forms is formed here in the same      *)
(* order; FMul is the fixed-point product.  Float rounding (10 * 0.07 is   *)
(* 0.7000000000000001 in binary64) is outside the model.  The Kelly        *)
(* functions divide, so they are computed over exact rationals (records    *)
(* [n, d] in lowest terms with d > 0); a division by zero is the outcome   *)
(* "raised" (Python's ZeroDivisionError).                                  *)
(***************************************************************************)
EXTENDS Integers, FiniteSets, Sequences, TLC

VARIABLES
    volume_30d,     \* self.volume_30d
    base_fee_rate,  \* self.base_fee_rate
    last,           \* the most recent call on the calculator: its name,
                    \* its arguments and what it returned
    kept,           \* an earlier calculator call (with its result) made since
                    \* the last update_volume, or NoCall
    kelly_last,     \* the most recent call of a Kelly sizing function: its
                    \* name, its arguments and its outcome
    max_drawdown,            \* self.max_drawdown
    max_daily_loss,          \* self.max_daily_loss
    max_consecutive_losses,  \* self.max_consecutive_losses
    is_halted,               \* self.is_halted
    halt_reason,             \* self.halt_reason
    consecutive_losses,      \* self.consecutive_losses
    daily_pnl,               \* self.daily_pnl, a dict from dates to amounts
    cb_last,        \* the most recent call on the circuit breaker: its name,
                    \* its arguments and what it returned
    trades,         \* the pnl of every record_trade call since the breaker
                    \* was constructed or reset, oldest first
    council_last,   \* the most recent call of AgentCouncil.decide: its
                    \* arguments and what it returned
    timing_last,    \* the most recent call on the TimingOptimizer
    bot,            \* the program whose poll loop runs: bot_v3 or bot_fixed
    no_price_count, \* no_price_count of the loop
    losses,         \* losses of the loop
    loop,           \* "running", "halted" (the break on no prices) or
                    \* "stopped" (the break on KeyboardInterrupt)
    bot_last        \* the most recent iteration of the loop: the price
                    \* fetched, the values computed and where it ended

\* the fields and the observed calls of each component
feeVars == <<volume_30d, base_fee_rate, last, kept>>
kellyVars == <<kelly_last>>
breakerVars == <<max_drawdown, max_daily_loss, max_consecutive_losses,
                 is_halted, halt_reason, consecutive_losses, daily_pnl,
                 cb_last, trades>>

councilVars == <<council_last>>
timingVars == <<timing_last>>
botVars == <<bot, no_price_count, losses, loop, bot_last>>

vars == <<feeVars, kellyVars, breakerVars, councilVars, timingVars, botVars>>

---------------------------------------------------------------------------
(* Fixed point *)

\* 1.00, the payout of a winning contract (max_payout = quantity * 1.00)
One == 10000

\* 0.5, the maker discount factor (fee_rate * 0.5)
Half == 5000

\* the product of two fixed-point numbers
FMul(x, y) == (x * y) \div One

---------------------------------------------------------------------------
(* Exact rationals *)

Abs(x) == IF x < 0 THEN -x ELSE x

RECURSIVE Gcd(_, _)
Gcd(a, b) == IF b = 0 THEN a ELSE Gcd(b, a % b)

\* n / d in lowest terms with a positive denominator (d # 0)
Rat(n, d) ==
    LET g == Gcd(Abs(n), Abs(d))
        s == IF d < 0 THEN -1 ELSE 1
    IN  [n |-> (s * n) \div g, d |-> (s * d) \div g]

\* the fixed-point number x as a rational, and a whole number
FromFixed(x) == Rat(x, One)
RInt(k) == [n |-> k, d |-> 1]

RAdd(x, y) == Rat(x.n * y.d + y.n * x.d, x.d * y.d)
RSub(x, y) == Rat(x.n * y.d - y.n * x.d, x.d * y.d)
RMul(x, y) == Rat(x.n * y.n, x.d * y.d)
\* x / y for y # 0
RDiv(x, y) == Rat(x.n * y.d, x.d * y.n)
RLt(x, y)  == x.n * y.d < y.n * x.d
RLeq(x, y) == x.n * y.d <= y.n * x.d
\* Python's min(x, y) and max(x, y)
RMin(x, y) == IF RLt(y, x) THEN y ELSE x
RMax(x, y) == IF RLt(x, y) THEN y ELSE x

---------------------------------------------------------------------------
(* Inputs *)

MaxQty == 1

\* a kept call counts the calculator calls made after it up to this number
MaxLater == 2

\* 30-day volumes in dollars: both sides of every tier threshold,
\* zero (the default) and a negative figure
Volumes == {-100, 0, 2499, 2500, 9999, 10000, 24999, 25000}

\* prices: negative, zero, $0.45, $0.50, $0.52, and above $1
Prices == {-500, 0, 4500, 5000, 5200, 12000}

Quantities == (-1 .. MaxQty) \cup {10, 100}

\* the smaller input sets of the specification that remembers earlier calls
IdemPrices == {4500, 5000}
IdemQuantities == {0, 10}

NoCall == [op |-> "none"]

\* what a further calculator call does to the kept call: it stays as it is and
\* only the count of the calls made after it grows
AfterCall(k) ==
    IF k = NoCall THEN NoCall
    ELSE [k EXCEPT !.later = IF @ < MaxLater THEN @ + 1 ELSE @]

CalculatorOps == {"calculate_trade_fee", "calculate_round_trip_fee",
                  "calculate_net_profit", "calculate_arbitrage_profit"}

---------------------------------------------------------------------------
(* FeeCalculator: the methods as functions of the fields they read *)

\* mutant: the tier thresholds taken as exclusive lower bounds
get_base_fee_rate_exclusive(self_volume_30d) ==
    IF self_volume_30d > 25000 THEN 350
    ELSE IF self_volume_30d > 10000 THEN 450
    ELSE IF self_volume_30d > 2500 THEN 550
    ELSE 700

\* _get_base_fee_rate(self), reading self.volume_30d
get_base_fee_rate(self_volume_30d) ==
    IF self_volume_30d >= 25000 THEN 350
    ELSE IF self_volume_30d >= 10000 THEN 450
    ELSE IF self_volume_30d >= 2500 THEN 550
    ELSE 700

\* mutant: the fee charged once per trade, the quantity left out of the payout
calculate_trade_fee_per_trade(self_base_fee_rate, price, quantity, is_maker) ==
    LET fee_rate == IF is_maker THEN FMul(self_base_fee_rate, Half)
                    ELSE self_base_fee_rate
        max_payout == One
    IN  FMul(max_payout, fee_rate)

\* mutant: the fee charged on the cost of the trade, not on the payout
calculate_trade_fee_on_cost(self_base_fee_rate, price, quantity, is_maker) ==
    LET fee_rate == IF is_maker THEN FMul(self_base_fee_rate, Half)
                    ELSE self_base_fee_rate
        cost     == price * quantity
        fee      == FMul(cost, fee_rate)
    IN  fee

\* calculate_trade_fee(self, price, quantity, is_maker), reading
\* self.base_fee_rate
calculate_trade_fee(self_base_fee_rate, price, quantity, is_maker) ==
    LET fee_rate   == IF is_maker THEN FMul(self_base_fee_rate, Half)
                      ELSE self_base_fee_rate
        max_payout == quantity * One
        fee        == FMul(max_payout, fee_rate)
    IN  fee

\* mutant: the legs swapped, the buy as maker and the sell as taker
calculate_round_trip_fee_swapped(self_base_fee_rate, buy_price, sell_price, quantity) ==
    LET buy_fee  == calculate_trade_fee(self_base_fee_rate, buy_price, quantity, TRUE)
        sell_fee == calculate_trade_fee(self_base_fee_rate, sell_price, quantity, FALSE)
    IN  [buy_fee       |-> buy_fee,
         sell_fee      |-> sell_fee,
         total_fees    |-> buy_fee + sell_fee,
         fee_rate_buy  |-> self_base_fee_rate,
         fee_rate_sell |-> FMul(self_base_fee_rate, Half)]

\* calculate_round_trip_fee(self, buy_price, sell_price, quantity)
calculate_round_trip_fee(self_base_fee_rate, buy_price, sell_price, quantity) ==
    LET buy_fee  == calculate_trade_fee(self_base_fee_rate, buy_price, quantity, FALSE)
        sell_fee == calculate_trade_fee(self_base_fee_rate, sell_price, quantity, TRUE)
    IN  [buy_fee       |-> buy_fee,
         sell_fee      |-> sell_fee,
         total_fees    |-> buy_fee + sell_fee,
         fee_rate_buy  |-> self_base_fee_rate,
         fee_rate_sell |-> FMul(self_base_fee_rate, Half)]

\* mutant: only the buy leg's fee taken off the gross profit
calculate_net_profit_buy_fee_only(self_base_fee_rate, buy_price, sell_price, quantity) ==
    LET cost         == buy_price * quantity
        revenue      == sell_price * quantity
        gross_profit == revenue - cost
        fees         == calculate_round_trip_fee(self_base_fee_rate, buy_price,
                                                 sell_price, quantity)
        total_fees   == fees.total_fees
        net_profit   == gross_profit - fees.buy_fee
    IN  [cost          |-> cost,
         revenue       |-> revenue,
         gross_profit  |-> gross_profit,
         fees          |-> total_fees,
         net_profit    |-> net_profit,
         fee_breakdown |-> fees]

\* mutant: the gross profit taken as cost minus revenue
calculate_net_profit_gross_reversed(self_base_fee_rate, buy_price, sell_price, quantity) ==
    LET cost         == buy_price * quantity
        revenue      == sell_price * quantity
        gross_profit == cost - revenue
        fees         == calculate_round_trip_fee(self_base_fee_rate, buy_price,
                                                 sell_price, quantity)
        total_fees   == fees.total_fees
        net_profit   == gross_profit - total_fees
    IN  [cost          |-> cost,
         revenue       |-> revenue,
         gross_profit  |-> gross_profit,
         fees          |-> total_fees,
         net_profit    |-> net_profit,
         fee_breakdown |-> fees]

\* calculate_net_profit(self, buy_price, sell_price, quantity)
calculate_net_profit(self_base_fee_rate, buy_price, sell_price, quantity) ==
    LET cost         == buy_price * quantity
        revenue      == sell_price * quantity
        gross_profit == revenue - cost
        fees         == calculate_round_trip_fee(self_base_fee_rate, buy_price,
                                                 sell_price, quantity)
        total_fees   == fees.total_fees
        net_profit   == gross_profit - total_fees
    IN  [cost          |-> cost,
         revenue       |-> revenue,
         gross_profit  |-> gross_profit,
         fees          |-> total_fees,
         net_profit    |-> net_profit,
         fee_breakdown |-> fees]

\* mutant: the payout taken at the traded prices, not at $1.00 a contract
calculate_arbitrage_profit_payout_at_price(self_base_fee_rate, yes_price, no_price, quantity) ==
    LET total_cost        == (yes_price + no_price) * quantity
        guaranteed_payout == quantity * yes_price
        yes_fee           == calculate_trade_fee(self_base_fee_rate, yes_price, quantity, FALSE)
        no_fee            == calculate_trade_fee(self_base_fee_rate, no_price, quantity, FALSE)
        total_fees        == yes_fee + no_fee
        gross_profit      == guaranteed_payout - total_cost
        net_profit        == gross_profit - total_fees
        total_probability == yes_price + no_price
        deviation         == total_probability - One
    IN  [total_cost        |-> total_cost,
         guaranteed_payout |-> guaranteed_payout,
         gross_profit      |-> gross_profit,
         total_fees        |-> total_fees,
         net_profit        |-> net_profit,
         total_probability |-> total_probability,
         deviation_pct     |-> deviation * 100,
         is_profitable     |-> net_profit > 0]

\* mutant: the NO leg given the maker discount
calculate_arbitrage_profit_no_leg_maker(self_base_fee_rate, yes_price, no_price, quantity) ==
    LET total_cost        == (yes_price + no_price) * quantity
        guaranteed_payout == quantity * One
        yes_fee           == calculate_trade_fee(self_base_fee_rate, yes_price, quantity, FALSE)
        no_fee            == calculate_trade_fee(self_base_fee_rate, no_price, quantity, TRUE)
        total_fees        == yes_fee + no_fee
        gross_profit      == guaranteed_payout - total_cost
        net_profit        == gross_profit - total_fees
        total_probability == yes_price + no_price
        deviation         == total_probability - One
    IN  [total_cost        |-> total_cost,
         guaranteed_payout |-> guaranteed_payout,
         gross_profit      |-> gross_profit,
         total_fees        |-> total_fees,
         net_profit        |-> net_profit,
         total_probability |-> total_probability,
         deviation_pct     |-> deviation * 100,
         is_profitable     |-> net_profit > 0]

\* mutant: a break-even pair reported as profitable
calculate_arbitrage_profit_break_even(self_base_fee_rate, yes_price, no_price, quantity) ==
    LET total_cost        == (yes_price + no_price) * quantity
        guaranteed_payout == quantity * One
        yes_fee           == calculate_trade_fee(self_base_fee_rate, yes_price, quantity, FALSE)
        no_fee            == calculate_trade_fee(self_base_fee_rate, no_price, quantity, FALSE)
        total_fees        == yes_fee + no_fee
        gross_profit      == guaranteed_payout - total_cost
        net_profit        == gross_profit - total_fees
        total_probability == yes_price + no_price
        deviation         == total_probability - One
    IN  [total_cost        |-> total_cost,
         guaranteed_payout |-> guaranteed_payout,
         gross_profit      |-> gross_profit,
         total_fees        |-> total_fees,
         net_profit        |-> net_profit,
         total_probability |-> total_probability,
         deviation_pct     |-> deviation * 100,
         is_profitable     |-> net_profit >= 0]

\* calculate_arbitrage_profit(self, yes_price, no_price, quantity)
calculate_arbitrage_profit(self_base_fee_rate, yes_price, no_price, quantity) ==
    LET total_cost        == (yes_price + no_price) * quantity
        guaranteed_payout == quantity * One
        yes_fee           == calculate_trade_fee(self_base_fee_rate, yes_price, quantity, FALSE)
        no_fee            == calculate_trade_fee(self_base_fee_rate, no_price, quantity, FALSE)
        total_fees        == yes_fee + no_fee
        gross_profit      == guaranteed_payout - total_cost
        net_profit        == gross_profit - total_fees
        total_probability == yes_price + no_price
        deviation         == total_probability - One
    IN  [total_cost        |-> total_cost,
         guaranteed_payout |-> guaranteed_payout,
         gross_profit      |-> gross_profit,
         total_fees        |-> total_fees,
         net_profit        |-> net_profit,
         total_probability |-> total_probability,
         deviation_pct     |-> deviation * 100,
         is_profitable     |-> net_profit > 0]

---------------------------------------------------------------------------
(* kelly_criterion.py: the sizing functions over exact rationals *)

\* an outcome of a sizing function: the value returned, whether the division
\* by the odds was evaluated on the way, and the odds it divided by
KellyReturn(value, divided, odds) ==
    [raised |-> FALSE, value |-> value, divided |-> divided, odds |-> odds]

\* a division by zero: ZeroDivisionError leaves the function
KellyRaise ==
    [raised |-> TRUE, value |-> RInt(0), divided |-> TRUE, odds |-> RInt(0)]

\* mutant: the guard tests market_price <= 0 only
calculate_kelly_bet_no_upper_guard(win_probability, market_price, bankroll, max_fraction, edge) ==
    IF RLeq(market_price, RInt(0))
    THEN KellyReturn(RInt(0), FALSE, RInt(0))
    ELSE IF market_price.n = 0
    THEN KellyRaise
    ELSE LET odds == RSub(RDiv(RInt(1), market_price), RInt(1))
         IN  IF odds.n = 0
             THEN KellyRaise
             ELSE LET kelly_fraction == RDiv(edge, odds)
                      capped         == RMin(kelly_fraction, max_fraction)
                      floored        == RMax(capped, RInt(0))
                  IN  KellyReturn(RMul(floored, bankroll), TRUE, odds)

\* mutant: the guard tests market_price < 0 or market_price > 1
calculate_kelly_bet_strict_guard(win_probability, market_price, bankroll, max_fraction, edge) ==
    IF RLt(market_price, RInt(0)) \/ RLt(RInt(1), market_price)
    THEN KellyReturn(RInt(0), FALSE, RInt(0))
    ELSE IF market_price.n = 0
    THEN KellyRaise
    ELSE LET odds == RSub(RDiv(RInt(1), market_price), RInt(1))
         IN  IF odds.n = 0
             THEN KellyRaise
             ELSE LET kelly_fraction == RDiv(edge, odds)
                      capped         == RMin(kelly_fraction, max_fraction)
                      floored        == RMax(capped, RInt(0))
                  IN  KellyReturn(RMul(floored, bankroll), TRUE, odds)

\* mutant: the floor max(kelly_fraction, 0) left out
calculate_kelly_bet_no_floor(win_probability, market_price, bankroll, max_fraction, edge) ==
    IF RLeq(market_price, RInt(0)) \/ RLeq(RInt(1), market_price)
    THEN KellyReturn(RInt(0), FALSE, RInt(0))
    ELSE IF market_price.n = 0
    THEN KellyRaise
    ELSE LET odds == RSub(RDiv(RInt(1), market_price), RInt(1))
         IN  IF odds.n = 0
             THEN KellyRaise
             ELSE LET kelly_fraction == RDiv(edge, odds)
                      capped         == RMin(kelly_fraction, max_fraction)
                      floored        == capped
                  IN  KellyReturn(RMul(floored, bankroll), TRUE, odds)

\* mutant: the cap min(kelly_fraction, max_fraction) left out
calculate_kelly_bet_no_cap(win_probability, market_price, bankroll, max_fraction, edge) ==
    IF RLeq(market_price, RInt(0)) \/ RLeq(RInt(1), market_price)
    THEN KellyReturn(RInt(0), FALSE, RInt(0))
    ELSE IF market_price.n = 0
    THEN KellyRaise
    ELSE LET odds == RSub(RDiv(RInt(1), market_price), RInt(1))
         IN  IF odds.n = 0
             THEN KellyRaise
             ELSE LET kelly_fraction == RDiv(edge, odds)
                      capped         == kelly_fraction
                      floored        == RMax(capped, RInt(0))
                  IN  KellyReturn(RMul(floored, bankroll), TRUE, odds)

\* mutant: the odds taken as 1/market_price, the stake not subtracted
calculate_kelly_bet_gross_odds(win_probability, market_price, bankroll, max_fraction, edge) ==
    IF RLeq(market_price, RInt(0)) \/ RLeq(RInt(1), market_price)
    THEN KellyReturn(RInt(0), FALSE, RInt(0))
    ELSE IF market_price.n = 0
    THEN KellyRaise
    ELSE LET odds == RDiv(RInt(1), market_price)
         IN  IF odds.n = 0
             THEN KellyRaise
             ELSE LET kelly_fraction == RDiv(edge, odds)
                      capped         == RMin(kelly_fraction, max_fraction)
                      floored        == RMax(capped, RInt(0))
                  IN  KellyReturn(RMul(floored, bankroll), TRUE, odds)

\* calculate_kelly_bet(win_probability, market_price, bankroll,
\* max_fraction, edge); 1/market_price and edge/odds raise on a zero divisor
calculate_kelly_bet(win_probability, market_price, bankroll, max_fraction, edge) ==
    IF RLeq(market_price, RInt(0)) \/ RLeq(RInt(1), market_price)
    THEN KellyReturn(RInt(0), FALSE, RInt(0))
    ELSE IF market_price.n = 0
    THEN KellyRaise
    ELSE LET odds == RSub(RDiv(RInt(1), market_price), RInt(1))
         IN  IF odds.n = 0
             THEN KellyRaise
             ELSE LET kelly_fraction == RDiv(edge, odds)
                      capped         == RMin(kelly_fraction, max_fraction)
                      floored        == RMax(capped, RInt(0))
                  IN  KellyReturn(RMul(floored, bankroll), TRUE, odds)

\* calculate_win_probability(market_price, edge)
calculate_win_probability(market_price, edge) ==
    RMin(RAdd(market_price, edge), Rat(99, 100))

\* get_kelly_fraction(edge, market_price, max_fraction): the bet for a
\* bankroll of 1.0
get_kelly_fraction(edge, market_price, max_fraction) ==
    LET win_prob == calculate_win_probability(market_price, edge)
        bet      == calculate_kelly_bet(win_prob, market_price, RInt(1),
                                        max_fraction, edge)
    IN  bet

\* get_bet_size(edge, market_price, bankroll, max_fraction)
get_bet_size(edge, market_price, bankroll, max_fraction) ==
    LET win_prob == calculate_win_probability(market_price, edge)
    IN  calculate_kelly_bet(win_prob, market_price, bankroll, max_fraction, edge)

---------------------------------------------------------------------------
(* The calculator as a state machine *)

\* None, and the empty dict
None == [kind |-> "None"]
EmptyDict == [d \in {} |-> 0]

\* CircuitBreaker(max_drawdown, max_daily_loss, max_consecutive_losses): the
\* state after __init__
CircuitBreaker__init__(a_max_drawdown, a_max_daily_loss, a_max_consecutive_losses) ==
    /\ max_drawdown = a_max_drawdown
    /\ max_daily_loss = a_max_daily_loss
    /\ max_consecutive_losses = a_max_consecutive_losses
    /\ is_halted = FALSE
    /\ halt_reason = None
    /\ consecutive_losses = 0
    /\ daily_pnl = EmptyDict
    /\ cb_last = [op |-> "__init__", args |-> <<>>, result |-> None]
    /\ trades = <<>>

\* FeeCalculator(volume_30d): the state after __init__
FeeCalculator__init__(v) ==
    /\ volume_30d = v
    /\ base_fee_rate = get_base_fee_rate(v)
    /\ last = [op     |-> "__init__",
               args   |-> [volume_30d |-> v],
               result |-> [base_fee_rate |-> get_base_fee_rate(v)]]
    /\ kept = NoCall

\* the council and the timing optimizer constructed and not called yet
AdvisersIdle ==
    /\ council_last = NoCall
    /\ timing_last = NoCall

\* a program about to enter its poll loop: losses = 0, no_price_count = 0
LoopStart(program) ==
    /\ bot = program
    /\ losses = 0
    /\ no_price_count = 0
    /\ loop = "running"
    /\ bot_last = NoCall

\* a FeeCalculator of any volume, no sizing call made yet, a
\* CircuitBreaker() of the default limits (0.20, $500, 5), the council and
\* the timing optimizer not called yet, and bot_v3 before its loop
Init ==
    \E v \in Volumes :
        /\ FeeCalculator__init__(v)
        /\ kelly_last = NoCall
        /\ CircuitBreaker__init__(2000, 500 * One, 5)
        /\ AdvisersIdle
        /\ LoopStart("bot_v3")

\* mutant: the volume stored and the fee rate not derived again
update_volume_stale_rate ==
    \E new_volume_30d \in Volumes :
        /\ volume_30d' = new_volume_30d
        /\ base_fee_rate' = base_fee_rate
        /\ last' = [op     |-> "update_volume",
                    args   |-> [volume_30d |-> new_volume_30d],
                    result |-> [base_fee_rate |-> base_fee_rate']]
        /\ kept' = NoCall

\* update_volume(self, new_volume_30d)
update_volume ==
    \E new_volume_30d \in Volumes :
        /\ volume_30d' = new_volume_30d
        /\ base_fee_rate' = get_base_fee_rate(volume_30d')
        /\ last' = [op     |-> "update_volume",
                    args   |-> [volume_30d |-> new_volume_30d],
                    result |-> [base_fee_rate |-> base_fee_rate']]
        /\ kept' = NoCall

\* mutant: the maker discount written back to self.base_fee_rate
call_calculate_trade_fee_stores_rate(P, Q) ==
    \E price \in P, quantity \in Q, is_maker \in BOOLEAN :
        /\ last' = [op     |-> "calculate_trade_fee",
                    args   |-> [price |-> price, quantity |-> quantity,
                                is_maker |-> is_maker],
                    result |-> [fee |-> calculate_trade_fee(base_fee_rate, price,
                                                            quantity, is_maker)]]
        /\ base_fee_rate' = IF is_maker THEN FMul(base_fee_rate, Half)
                            ELSE base_fee_rate
        /\ UNCHANGED volume_30d
        /\ kept' = AfterCall(kept)

\* a call of calculate_trade_fee
call_calculate_trade_fee(P, Q) ==
    \E price \in P, quantity \in Q, is_maker \in BOOLEAN :
        /\ last' = [op     |-> "calculate_trade_fee",
                    args   |-> [price |-> price, quantity |-> quantity,
                                is_maker |-> is_maker],
                    result |-> [fee |-> calculate_trade_fee(base_fee_rate, price,
                                                            quantity, is_maker)]]
        /\ UNCHANGED <<volume_30d, base_fee_rate>>
        /\ kept' = AfterCall(kept)

\* a call of calculate_round_trip_fee
call_calculate_round_trip_fee(P, Q) ==
    \E buy_price \in P, sell_price \in P, quantity \in Q :
        /\ last' = [op     |-> "calculate_round_trip_fee",
                    args   |-> [buy_price |-> buy_price, sell_price |-> sell_price,
                                quantity |-> quantity],
                    result |-> calculate_round_trip_fee(base_fee_rate, buy_price,
                                                        sell_price, quantity)]
        /\ UNCHANGED <<volume_30d, base_fee_rate>>
        /\ kept' = AfterCall(kept)

\* a call of calculate_net_profit
call_calculate_net_profit(P, Q) ==
    \E buy_price \in P, sell_price \in P, quantity \in Q :
        /\ last' = [op     |-> "calculate_net_profit",
                    args   |-> [buy_price |-> buy_price, sell_price |-> sell_price,
                                quantity |-> quantity],
                    result |-> calculate_net_profit(base_fee_rate, buy_price,
                                                    sell_price, quantity)]
        /\ UNCHANGED <<volume_30d, base_fee_rate>>
        /\ kept' = AfterCall(kept)

\* a call of calculate_arbitrage_profit
call_calculate_arbitrage_profit(P, Q) ==
    \E yes_price \in P, no_price \in P, quantity \in Q :
        /\ last' = [op     |-> "calculate_arbitrage_profit",
                    args   |-> [yes_price |-> yes_price, no_price |-> no_price,
                                quantity |-> quantity],
                    result |-> calculate_arbitrage_profit(base_fee_rate, yes_price,
                                                          no_price, quantity)]
        /\ UNCHANGED <<volume_30d, base_fee_rate>>
        /\ kept' = AfterCall(kept)

\* the caller keeps the result of the call just made, to compare a later
\* call with it
Remember ==
    /\ last.op \in CalculatorOps
    /\ kept' = [op |-> last.op, args |-> last.args, result |-> last.result,
                later |-> 0]
    /\ UNCHANGED <<volume_30d, base_fee_rate, last>>

\* what a step of the fee calculator leaves alone
otherThanFee == <<kellyVars, breakerVars, councilVars, timingVars, botVars>>

Next ==
    \/ update_volume /\ UNCHANGED otherThanFee
    \/ call_calculate_trade_fee(Prices, Quantities) /\ UNCHANGED otherThanFee
    \/ call_calculate_round_trip_fee(Prices, Quantities) /\ UNCHANGED otherThanFee
    \/ call_calculate_net_profit(Prices, Quantities) /\ UNCHANGED otherThanFee
    \/ call_calculate_arbitrage_profit(Prices, Quantities) /\ UNCHANGED otherThanFee

Spec == Init /\ [][Next]_vars

NextIdem ==
    \/ update_volume /\ UNCHANGED otherThanFee
    \/ call_calculate_trade_fee(IdemPrices, IdemQuantities) /\ UNCHANGED otherThanFee
    \/ call_calculate_round_trip_fee(IdemPrices, IdemQuantities) /\ UNCHANGED otherThanFee
    \/ call_calculate_net_profit(IdemPrices, IdemQuantities) /\ UNCHANGED otherThanFee
    \/ call_calculate_arbitrage_profit(IdemPrices, IdemQuantities) /\ UNCHANGED otherThanFee
    \/ Remember /\ UNCHANGED otherThanFee

SpecIdem == Init /\ [][NextIdem]_vars

---------------------------------------------------------------------------
(* test_1pct_return.py: a 1% target return against the fees *)

\* 1.01, the factor of target_price = price * 1.01
TargetFactor == 10100

\* 0.10, the net profit the test calls profitable
ProfitableFrom == 1000

\* the largest position tried
MaxTestQty == 300

\* prices = [0.20, 0.30, 0.45, 0.60]
TestPrices == {2000, 3000, 4500, 6000}

\* every whole-cent price inside (0, 1)
CentPrices == {100 * c : c \in 1 .. 99}

\* positions: the 1-9 contracts of the $29.40 bankroll, and large ones
TestQuantities == (1 .. 9) \cup {50, 51, 100, MaxTestQty}

\* Python's int() of a rational: truncation toward zero
PyInt(x) == IF x.n >= 0 THEN x.n \div x.d ELSE -((-x.n) \div x.d)

\* the position the test sizes at a price: Kelly fraction of edge 0.05 capped
\* at 0.10, of a bankroll of 29.40, in whole contracts
test_position(price) ==
    LET edge  == Rat(5, 100)
        kelly == IF price > 0
                 THEN RDiv(edge, RSub(RDiv(RInt(1), FromFixed(price)), RInt(1)))
                 ELSE RInt(0)
        capped == RMin(kelly, Rat(10, 100))
        bet   == RMul(capped, Rat(2940, 100))
    IN  IF price > 0 THEN PyInt(RDiv(bet, FromFixed(price))) ELSE 0

\* one turn of the test's loop: size the position, and if there is one,
\* compute the net profit of selling it 1% higher
test_1pct_return ==
    \E price \in TestPrices :
        LET n == test_position(price)
            target_price == FMul(price, TargetFactor)
        IN  /\ n > 0
            /\ last' = [op     |-> "calculate_net_profit",
                        args   |-> [buy_price |-> price,
                                    sell_price |-> target_price,
                                    quantity |-> n],
                        result |-> calculate_net_profit(base_fee_rate, price,
                                                        target_price, n)]
            /\ UNCHANGED <<volume_30d, base_fee_rate>>
            /\ kept' = AfterCall(kept)

\* the same computation for any price and position
call_net_profit_at_target(P, Q) ==
    \E price \in P, n \in Q :
        LET target_price == FMul(price, TargetFactor)
        IN  /\ last' = [op     |-> "calculate_net_profit",
                        args   |-> [buy_price |-> price,
                                    sell_price |-> target_price,
                                    quantity |-> n],
                        result |-> calculate_net_profit(base_fee_rate, price,
                                                        target_price, n)]
            /\ UNCHANGED <<volume_30d, base_fee_rate>>
            /\ kept' = AfterCall(kept)

\* fee_calc = FeeCalculator(volume_30d=0)
Init1Pct == Init /\ volume_30d = 0

Next1Pct ==
    \/ test_1pct_return /\ UNCHANGED otherThanFee
    \/ call_net_profit_at_target(CentPrices, TestQuantities)
         /\ UNCHANGED otherThanFee

Spec1Pct == Init1Pct /\ [][Next1Pct]_vars

---------------------------------------------------------------------------
(* The Kelly sizing functions, called in any order *)

\* edges: negative, zero, the configured 0.05, and 0.5
KellyEdges == {-500, 0, 500, 5000}

\* market prices: negative, zero, $0.20, $0.50, $0.90, $0.9999, $1, $1.20
KellyPrices == {-500, 0, 2000, 5000, 9000, 9999, 10000, 12000}

\* bankrolls: nothing, the configured $29.40, $1000
Bankrolls == {0, 294000, 10000000}

\* caps: none of the bankroll, MAX_KELLY_FRACTION 0.10, the default 0.25
MaxFractions == {0, 1000, 2500}

\* win probabilities handed to calculate_kelly_bet by callers that do not
\* derive them from the price
WinProbabilities == {0, 5500}

\* the degenerate inputs: prices outside (0, 1) with one inside, quantities
\* not positive, a losing and a winning edge
DegeneratePrices == {-500, 0, 5000, 10000, 12000}
DegenerateFeePrices == {-500, 0, 12000}
DegenerateQuantities == {-1, 0}
DegenerateEdges == {-500, 500}
DegenerateBankrolls == {0, 10000000}

KellyOps == {"calculate_kelly_bet", "get_kelly_fraction", "get_bet_size"}

\* a call of calculate_kelly_bet
call_calculate_kelly_bet(W, P, B, M, E) ==
    \E win_probability \in W, market_price \in P, bankroll \in B,
       max_fraction \in M, edge \in E :
        kelly_last' =
            [op     |-> "calculate_kelly_bet",
             args   |-> [win_probability |-> FromFixed(win_probability),
                         market_price |-> FromFixed(market_price),
                         bankroll |-> FromFixed(bankroll),
                         max_fraction |-> FromFixed(max_fraction),
                         edge |-> FromFixed(edge)],
             result |-> calculate_kelly_bet(FromFixed(win_probability),
                                            FromFixed(market_price),
                                            FromFixed(bankroll),
                                            FromFixed(max_fraction),
                                            FromFixed(edge))]

\* a call of get_kelly_fraction
call_get_kelly_fraction(E, P, M) ==
    \E edge \in E, market_price \in P, max_fraction \in M :
        kelly_last' =
            [op     |-> "get_kelly_fraction",
             args   |-> [edge |-> FromFixed(edge),
                         market_price |-> FromFixed(market_price),
                         max_fraction |-> FromFixed(max_fraction)],
             result |-> get_kelly_fraction(FromFixed(edge),
                                           FromFixed(market_price),
                                           FromFixed(max_fraction))]

\* a call of get_bet_size
call_get_bet_size(E, P, B, M) ==
    \E edge \in E, market_price \in P, bankroll \in B, max_fraction \in M :
        kelly_last' =
            [op     |-> "get_bet_size",
             args   |-> [edge |-> FromFixed(edge),
                         market_price |-> FromFixed(market_price),
                         bankroll |-> FromFixed(bankroll),
                         max_fraction |-> FromFixed(max_fraction)],
             result |-> get_bet_size(FromFixed(edge), FromFixed(market_price),
                                     FromFixed(bankroll),
                                     FromFixed(max_fraction))]

\* what a call of a sizing function leaves alone
otherThanKelly == <<feeVars, breakerVars, councilVars, timingVars, botVars>>

\* the sizing functions next to a FeeCalculator() of the default volume
InitKelly == Init /\ volume_30d = 0

NextKelly ==
    \/ call_calculate_kelly_bet(WinProbabilities, KellyPrices, Bankrolls,
                                MaxFractions, KellyEdges)
         /\ UNCHANGED otherThanKelly
    \/ call_get_kelly_fraction(KellyEdges, KellyPrices, MaxFractions)
         /\ UNCHANGED otherThanKelly
    \/ call_get_bet_size(KellyEdges, KellyPrices, Bankrolls, MaxFractions)
         /\ UNCHANGED otherThanKelly

SpecKelly == InitKelly /\ [][NextKelly]_vars

\* both calculators on their degenerate inputs
NextDegenerate ==
    \/ call_calculate_trade_fee(DegenerateFeePrices, DegenerateQuantities)
         /\ UNCHANGED otherThanFee
    \/ call_calculate_round_trip_fee(DegenerateFeePrices, DegenerateQuantities)
         /\ UNCHANGED otherThanFee
    \/ call_calculate_net_profit(DegenerateFeePrices, DegenerateQuantities)
         /\ UNCHANGED otherThanFee
    \/ call_calculate_arbitrage_profit(DegenerateFeePrices, DegenerateQuantities)
         /\ UNCHANGED otherThanFee
    \/ call_calculate_kelly_bet({5500}, DegeneratePrices, DegenerateBankrolls,
                                {2500}, DegenerateEdges)
         /\ UNCHANGED otherThanKelly
    \/ call_get_kelly_fraction(DegenerateEdges, DegeneratePrices, {2500})
         /\ UNCHANGED otherThanKelly
    \/ call_get_bet_size(DegenerateEdges, DegeneratePrices, DegenerateBankrolls,
                         {2500})
         /\ UNCHANGED otherThanKelly

\* a FeeCalculator of a negative volume or of the default one
InitDegenerate == Init /\ volume_30d \in {-100, 0}

SpecDegenerate == InitDegenerate /\ [][NextDegenerate]_vars

---------------------------------------------------------------------------
(* circuit_breaker.py: class CircuitBreaker *)

\* the most trades recorded between two resets
MaxTrades == 5

\* the fewer trades recorded between two resets where the other checks are
\* called as well
MaxTradesMixed == 2

\* the largest max_consecutive_losses a breaker is constructed with
MaxLossLimit == 3

\* a day's pnl is followed up to this many losses or gains of $250 either way
MaxDailySteps == 3

\* pnl of a trade: a loss, break-even, a win
Pnls == {-50 * One, 0, 40 * One}
MixedPnls == {-50 * One, 40 * One}

\* drawdowns: 10%, exactly the 20% limit, 25%
Drawdowns == {1000, 2000, 2500}

Dates == {"2026-01-15", "2026-01-16"}

\* amounts added to a day's pnl
Losses == {-250 * One, 250 * One}

BreakerOps == {"check_drawdown", "check_daily_loss", "record_trade",
               "status", "reset"}

\* a call, its arguments and what it returned
CallOf(op, args, result) == [op |-> op, args |-> args, result |-> result]

\* sum(self.daily_pnl.values())
RECURSIVE SumValues(_)
SumValues(d) ==
    IF DOMAIN d = {} THEN 0
    ELSE LET k == CHOOSE x \in DOMAIN d : TRUE
         IN  d[k] + SumValues([x \in DOMAIN d \ {k} |-> d[x]])

\* halt(self, reason)
halt(reason) ==
    /\ is_halted' = TRUE
    /\ halt_reason' = reason

\* check_drawdown(self, current_drawdown)
check_drawdown ==
    \E current_drawdown \in Drawdowns :
        /\ IF current_drawdown > max_drawdown
           THEN /\ halt([kind  |-> "max drawdown exceeded",
                         value |-> current_drawdown])
                /\ cb_last' = CallOf("check_drawdown",
                                     [current_drawdown |-> current_drawdown],
                                     TRUE)
           ELSE /\ UNCHANGED <<is_halted, halt_reason>>
                /\ cb_last' = CallOf("check_drawdown",
                                     [current_drawdown |-> current_drawdown],
                                     FALSE)
        /\ UNCHANGED <<max_drawdown, max_daily_loss, max_consecutive_losses,
                       consecutive_losses, daily_pnl, trades>>

\* mutant: the halt taken at the limit already (<= for <)
check_daily_loss_inclusive ==
    \E date \in Dates, loss \in Losses :
        LET started == IF date \in DOMAIN daily_pnl THEN daily_pnl
                       ELSE [d \in DOMAIN daily_pnl \cup {date} |->
                                IF d = date THEN 0 ELSE daily_pnl[d]]
            added   == [started EXCEPT ![date] = @ + loss]
        IN  /\ Abs(added[date]) <= MaxDailySteps * 250 * One
            /\ daily_pnl' = added
            /\ IF daily_pnl'[date] <= -max_daily_loss
               THEN /\ halt([kind  |-> "daily loss limit hit",
                             value |-> daily_pnl'[date]])
                    /\ cb_last' = CallOf("check_daily_loss",
                                         [date |-> date, loss |-> loss], TRUE)
               ELSE /\ UNCHANGED <<is_halted, halt_reason>>
                    /\ cb_last' = CallOf("check_daily_loss",
                                         [date |-> date, loss |-> loss], FALSE)
            /\ UNCHANGED <<max_drawdown, max_daily_loss,
                           max_consecutive_losses, consecutive_losses, trades>>

\* check_daily_loss(self, date, loss)
check_daily_loss ==
    \E date \in Dates, loss \in Losses :
        LET started == IF date \in DOMAIN daily_pnl THEN daily_pnl
                       ELSE [d \in DOMAIN daily_pnl \cup {date} |->
                                IF d = date THEN 0 ELSE daily_pnl[d]]
            added   == [started EXCEPT ![date] = @ + loss]
        IN  /\ Abs(added[date]) <= MaxDailySteps * 250 * One
            /\ daily_pnl' = added
            /\ IF daily_pnl'[date] < -max_daily_loss
               THEN /\ halt([kind  |-> "daily loss limit hit",
                             value |-> daily_pnl'[date]])
                    /\ cb_last' = CallOf("check_daily_loss",
                                         [date |-> date, loss |-> loss], TRUE)
               ELSE /\ UNCHANGED <<is_halted, halt_reason>>
                    /\ cb_last' = CallOf("check_daily_loss",
                                         [date |-> date, loss |-> loss], FALSE)
            /\ UNCHANGED <<max_drawdown, max_daily_loss,
                           max_consecutive_losses, consecutive_losses, trades>>

\* mutant: the halt taken only past the limit (> for >=)
record_trade_strict(pnls, max_trades) ==
    \E pnl \in pnls :
        /\ Len(trades) < max_trades
        /\ trades' = Append(trades, pnl)
        /\ IF pnl < 0
           THEN /\ consecutive_losses' = consecutive_losses + 1
                /\ IF consecutive_losses' > max_consecutive_losses
                   THEN /\ halt([kind  |-> "consecutive losses",
                                 value |-> consecutive_losses'])
                        /\ cb_last' = CallOf("record_trade", [pnl |-> pnl], TRUE)
                   ELSE /\ UNCHANGED <<is_halted, halt_reason>>
                        /\ cb_last' = CallOf("record_trade", [pnl |-> pnl], FALSE)
           ELSE /\ consecutive_losses' = 0
                /\ UNCHANGED <<is_halted, halt_reason>>
                /\ cb_last' = CallOf("record_trade", [pnl |-> pnl], FALSE)
        /\ UNCHANGED <<max_drawdown, max_daily_loss, max_consecutive_losses,
                       daily_pnl>>

\* mutant: a trade that is not a loss also clears the halt
record_trade_win_resumes(pnls, max_trades) ==
    \E pnl \in pnls :
        /\ Len(trades) < max_trades
        /\ trades' = Append(trades, pnl)
        /\ IF pnl < 0
           THEN /\ consecutive_losses' = consecutive_losses + 1
                /\ IF consecutive_losses' >= max_consecutive_losses
                   THEN /\ halt([kind  |-> "consecutive losses",
                                 value |-> consecutive_losses'])
                        /\ cb_last' = CallOf("record_trade", [pnl |-> pnl], TRUE)
                   ELSE /\ UNCHANGED <<is_halted, halt_reason>>
                        /\ cb_last' = CallOf("record_trade", [pnl |-> pnl], FALSE)
           ELSE /\ consecutive_losses' = 0
                /\ is_halted' = FALSE /\ halt_reason' = None
                /\ cb_last' = CallOf("record_trade", [pnl |-> pnl], FALSE)
        /\ UNCHANGED <<max_drawdown, max_daily_loss, max_consecutive_losses,
                       daily_pnl>>

\* record_trade(self, pnl), for at most max_trades trades between two resets
record_trade(pnls, max_trades) ==
    \E pnl \in pnls :
        /\ Len(trades) < max_trades
        /\ trades' = Append(trades, pnl)
        /\ IF pnl < 0
           THEN /\ consecutive_losses' = consecutive_losses + 1
                /\ IF consecutive_losses' >= max_consecutive_losses
                   THEN /\ halt([kind  |-> "consecutive losses",
                                 value |-> consecutive_losses'])
                        /\ cb_last' = CallOf("record_trade", [pnl |-> pnl], TRUE)
                   ELSE /\ UNCHANGED <<is_halted, halt_reason>>
                        /\ cb_last' = CallOf("record_trade", [pnl |-> pnl], FALSE)
           ELSE /\ consecutive_losses' = 0
                /\ UNCHANGED <<is_halted, halt_reason>>
                /\ cb_last' = CallOf("record_trade", [pnl |-> pnl], FALSE)
        /\ UNCHANGED <<max_drawdown, max_daily_loss, max_consecutive_losses,
                       daily_pnl>>

\* mutant: the halt reason left in place by reset
reset_keeps_reason ==
    /\ is_halted' = FALSE
    /\ UNCHANGED halt_reason
    /\ consecutive_losses' = 0
    /\ daily_pnl' = EmptyDict
    /\ cb_last' = CallOf("reset", <<>>, None)
    /\ trades' = <<>>
    /\ UNCHANGED <<max_drawdown, max_daily_loss, max_consecutive_losses>>

\* reset(self)
reset ==
    /\ is_halted' = FALSE
    /\ halt_reason' = None
    /\ consecutive_losses' = 0
    /\ daily_pnl' = EmptyDict
    /\ cb_last' = CallOf("reset", <<>>, None)
    /\ trades' = <<>>
    /\ UNCHANGED <<max_drawdown, max_daily_loss, max_consecutive_losses>>

\* status(self)
status ==
    /\ cb_last' = CallOf("status", <<>>,
                         [is_halted          |-> is_halted,
                          halt_reason        |-> halt_reason,
                          consecutive_losses |-> consecutive_losses,
                          daily_pnl          |-> SumValues(daily_pnl)])
    /\ UNCHANGED <<max_drawdown, max_daily_loss, max_consecutive_losses,
                   is_halted, halt_reason, consecutive_losses, daily_pnl,
                   trades>>

\* what a call on the circuit breaker leaves alone
otherThanBreaker == <<feeVars, kellyVars, councilVars, timingVars, botVars>>

\* a breaker of the default drawdown and daily limits and of any limit of
\* consecutive losses up to MaxLossLimit, next to a FeeCalculator()
InitBreaker ==
    /\ FeeCalculator__init__(0)
    /\ kelly_last = NoCall
    /\ AdvisersIdle
    /\ LoopStart("bot_v3")
    /\ \E limit \in 1 .. MaxLossLimit :
          CircuitBreaker__init__(2000, 500 * One, limit)

\* trades recorded and the breaker reset, in any order
NextTrades ==
    \/ record_trade(Pnls, MaxTrades) /\ UNCHANGED otherThanBreaker
    \/ reset /\ UNCHANGED otherThanBreaker

SpecTrades == InitBreaker /\ [][NextTrades]_vars

\* every method of the breaker, in any order
NextBreaker ==
    \/ check_drawdown /\ UNCHANGED otherThanBreaker
    \/ check_daily_loss /\ UNCHANGED otherThanBreaker
    \/ record_trade(MixedPnls, MaxTradesMixed) /\ UNCHANGED otherThanBreaker
    \/ status /\ UNCHANGED otherThanBreaker
    \/ reset /\ UNCHANGED otherThanBreaker

SpecBreaker == InitBreaker /\ [][NextBreaker]_vars

---------------------------------------------------------------------------
(* ai/agent_council.py: the four agents and AgentCouncil.decide *)

\* class Vote(Enum)
Vote == [STRONG_YES |-> 2, YES |-> 1, ABSTAIN |-> 0, NO |-> -1,
         STRONG_NO |-> -2]

\* self.agents, by class name, and the weight of each class
agents == <<"RiskAgent", "ValueAgent", "TimingAgent", "SentimentAgent">>
weight == [RiskAgent |-> 15000, ValueAgent |-> 20000, TimingAgent |-> 10000,
           SentimentAgent |-> 12000]

\* dict.get(key, default)
Get(dict, key, default) == IF key \in DOMAIN dict THEN dict[key] ELSE default

\* the sum of a list of numbers
RECURSIVE SumOver(_)
SumOver(seq) ==
    IF seq = <<>> THEN 0 ELSE seq[1] + SumOver(Tail(seq))

\* abs(x), and round(x, 2) of a rational that is not half-way between two
\* hundredths
RAbs(x) == [n |-> Abs(x.n), d |-> x.d]
Round2(x) == Rat((200 * x.n + x.d) \div (2 * x.d), 100)

\* RiskAgent.vote
RiskAgent_vote(opportunity, market_data, bot_state) ==
    IF Get(bot_state, "consecutive_losses", 0) >= 2 THEN "STRONG_NO"
    ELSE IF Get(opportunity, "market_category", "None")
              = Get(bot_state, "last_category", "None") THEN "NO"
    ELSE IF Get(market_data, "volatility", 0) > 1500 THEN "NO"
    ELSE "YES"

\* ValueAgent.vote
ValueAgent_vote(opportunity, market_data, bot_state) ==
    LET profit == Get(opportunity, "net_profit", 0)
    IN  IF profit > 2000 THEN "STRONG_YES"
        ELSE IF profit > 1000 THEN "YES"
        ELSE IF profit < 300 THEN "STRONG_NO"
        ELSE "ABSTAIN"

\* TimingAgent.vote
TimingAgent_vote(opportunity, market_data, bot_state) ==
    LET spread     == Get(opportunity, "spread", 0)
        volatility == Get(market_data, "volatility", 0)
    IN  IF spread < 300 /\ volatility < 1000 THEN "YES"
        ELSE IF spread > 500 \/ volatility > 1500 THEN "NO"
        ELSE "ABSTAIN"

\* SentimentAgent.vote
SentimentAgent_vote(opportunity, market_data, bot_state) ==
    LET ai_score == Get(opportunity, "ai_score", 5000)
    IN  IF ai_score > 7500 THEN "STRONG_YES"
        ELSE IF ai_score > 6000 THEN "YES"
        ELSE IF ai_score < 4000 THEN "NO"
        ELSE "ABSTAIN"

\* agent.vote(opportunity, market_data, bot_state) of each agent of the list
votes_of(opportunity, market_data, bot_state) ==
    [RiskAgent      |-> RiskAgent_vote(opportunity, market_data, bot_state),
     ValueAgent     |-> ValueAgent_vote(opportunity, market_data, bot_state),
     TimingAgent    |-> TimingAgent_vote(opportunity, market_data, bot_state),
     SentimentAgent |-> SentimentAgent_vote(opportunity, market_data, bot_state)]

\* mutant: the weighted sum divided by the number of agents
tally_by_count(votes) ==
    LET weighted_sum == SumOver([i \in 1 .. Len(agents) |->
                                   Vote[votes[agents[i]]] * weight[agents[i]]])
        total_weight == Len(agents) * One
        score        == Rat(weighted_sum, total_weight)
    IN  [execute        |-> RLt(Rat(1, 2), score),
         confidence     |-> RDiv(RAbs(score), RInt(2)),
         votes          |-> votes,
         weighted_score |-> Round2(score)]

\* the rest of decide once the agents have voted: the weighted average, the
\* threshold and the dict returned
tally(votes) ==
    LET weighted_sum == SumOver([i \in 1 .. Len(agents) |->
                                   Vote[votes[agents[i]]] * weight[agents[i]]])
        total_weight == SumOver([i \in 1 .. Len(agents) |-> weight[agents[i]]])
        score        == Rat(weighted_sum, total_weight)
    IN  [execute        |-> RLt(Rat(1, 2), score),
         confidence     |-> RDiv(RAbs(score), RInt(2)),
         votes          |-> votes,
         weighted_score |-> Round2(score)]

\* AgentCouncil.decide(opportunity, market_data, bot_state)
decide(opportunity, market_data, bot_state) ==
    tally(votes_of(opportunity, market_data, bot_state))

\* opportunities, market data and bot states around the thresholds the
\* agents test, and an opportunity without any key
Opportunities ==
    [spread : {200, 300, 600}, net_profit : {0, 500, 1500, 2500},
     market_category : {"sports", "politics"},
     ai_score : {5000, 6500}] \cup {EmptyDict}
MarketData == [volatility : {800, 1200, 2000}]
BotStates == [consecutive_losses : {0, 2}, last_category : {"sports"}]

\* a call of decide
call_decide ==
    \E opportunity \in Opportunities, market_data \in MarketData,
       bot_state \in BotStates :
        council_last' =
            [op     |-> "decide",
             args   |-> [opportunity |-> opportunity,
                         market_data |-> market_data,
                         bot_state |-> bot_state],
             result |-> decide(opportunity, market_data, bot_state)]

\* a call of decide on a council whose agents vote in any way
call_decide_any_votes ==
    \E votes \in [{"RiskAgent", "ValueAgent", "TimingAgent", "SentimentAgent"}
                    -> DOMAIN Vote] :
        council_last' = [op     |-> "decide",
                         args   |-> [votes |-> votes],
                         result |-> tally(votes)]

\* what a call of the council leaves alone
otherThanCouncil == <<feeVars, kellyVars, breakerVars, timingVars, botVars>>

\* the components as bot_v3 constructs them
InitBot == Init /\ volume_30d = 0

NextCouncil ==
    \/ call_decide /\ UNCHANGED otherThanCouncil
    \/ call_decide_any_votes /\ UNCHANGED otherThanCouncil

SpecCouncil == InitBot /\ [][NextCouncil]_vars

---------------------------------------------------------------------------
(* strategies/timing_optimizer.py: class TimingOptimizer *)

\* extract_features(opportunity, market_data), at an hour of the day: the
\* features the timing rules read
extract_features(opportunity, market_data, hour) ==
    [spread           |-> Get(opportunity, "spread", 0),
     volume_last_hour |-> Get(market_data, "volume_1h", 0),
     time_of_day      |-> hour,
     time_to_close    |-> Get(market_data, "close_time_hours", 24 * One),
     volatility_5min  |-> Get(market_data, "volatility", 0)]

\* rule_based_timing(features): the delay in seconds, the rules applied in
\* the order of the code
rule_based_timing(features) ==
    LET delay1 == IF features.spread > 500 THEN 30 ELSE 0
        delay2 == IF features.volume_last_hour < 100 THEN delay1 + 60
                  ELSE delay1
        delay3 == IF features.time_of_day < 9 \/ features.time_of_day > 20
                  THEN delay2 + 45 ELSE delay2
        delay4 == IF features.time_to_close < One THEN 0 ELSE delay3
        delay5 == IF features.volatility_5min > 1000 THEN delay4 + 30
                  ELSE delay4
    IN  IF delay5 < 300 THEN delay5 ELSE 300

\* predict_optimal_delay(opportunity, market_data)
predict_optimal_delay(opportunity, market_data, hour) ==
    rule_based_timing(extract_features(opportunity, market_data, hour))

\* should_execute_now(opportunity, market_data)
should_execute_now(opportunity, market_data, hour) ==
    predict_optimal_delay(opportunity, market_data, hour) = 0

\* get_execution_recommendation(opportunity, market_data)
get_execution_recommendation(opportunity, market_data, hour) ==
    LET delay    == predict_optimal_delay(opportunity, market_data, hour)
        features == extract_features(opportunity, market_data, hour)
        reasons  ==
            (IF features.spread > 500 THEN {"Wide spread"} ELSE {})
              \cup (IF features.volume_last_hour < 100
                    THEN {"Low volume"} ELSE {})
              \cup (IF features.time_of_day < 9 \/ features.time_of_day > 20
                    THEN {"Off-peak hours"} ELSE {})
              \cup (IF features.volatility_5min > 1000
                    THEN {"High volatility"} ELSE {})
    IN  [execute_now               |-> delay = 0,
         recommended_delay_seconds |-> delay,
         reasons |-> IF reasons # {} THEN reasons ELSE {"Optimal timing"}]

\* spreads of 3% and 6%; last-hour volumes of 50 and 500; hours before,
\* inside and after 9..20; half an hour, exactly one hour and twelve hours
\* to the close; volatilities of 8%, exactly 10% and 15%
TimingOpportunities == [spread : {300, 600}]
TimingMarketData ==
    [volume_1h : {50, 500}, close_time_hours : {5000, One, 12 * One},
     volatility : {800, 1000, 1500}]
Hours == {8, 12, 21}

\* a call of should_execute_now
call_should_execute_now ==
    \E opportunity \in TimingOpportunities, market_data \in TimingMarketData,
       hour \in Hours :
        timing_last' =
            [op       |-> "should_execute_now",
             features |-> extract_features(opportunity, market_data, hour),
             delay    |-> predict_optimal_delay(opportunity, market_data, hour),
             result   |-> should_execute_now(opportunity, market_data, hour)]

\* a call of get_execution_recommendation
call_get_execution_recommendation ==
    \E opportunity \in TimingOpportunities, market_data \in TimingMarketData,
       hour \in Hours :
        timing_last' =
            [op       |-> "get_execution_recommendation",
             features |-> extract_features(opportunity, market_data, hour),
             delay    |-> predict_optimal_delay(opportunity, market_data, hour),
             result   |-> get_execution_recommendation(opportunity,
                                                       market_data, hour)]

\* what a call on the timing optimizer leaves alone
otherThanTiming == <<feeVars, kellyVars, breakerVars, councilVars, botVars>>

NextTiming ==
    \/ call_should_execute_now /\ UNCHANGED otherThanTiming
    \/ call_get_execution_recommendation /\ UNCHANGED otherThanTiming

SpecTiming == InitBot /\ [][NextTiming]_vars

---------------------------------------------------------------------------
(* bot_v3.py and bot_fixed.py: the poll loop *)

\* bot_config.py, the defaults: MAX_NO_PRICE_COUNT (the literal 30 of
\* bot_fixed), MAX_CONSECUTIVE_LOSSES (the literal 3 of bot_fixed), MIN_PRICE
\* 0.20, MIN_NET_PROFIT 0.50, TARGET_RETURN_PCT 10 / 100, EDGE 0.05 and
\* BANKROLL 29.40
MAX_NO_PRICE_COUNT == 30
MAX_CONSECUTIVE_LOSSES == 3
MIN_PRICE == 2000
MIN_NET_PROFIT == 5000
TARGET_RETURN_PCT == 1000
EDGE == 500
BANKROLL == 294000

\* the two programs
Programs == {"bot_v3", "bot_fixed"}

\* Kalshi.price(ticker): None (no asks, or an error), or the lowest ask in
\* dollars, x[0] / 100 of a whole number of cents
Priced(x) == [price |-> x]
PolledPrices == {1000, 2000, 5000, 9900, One}
Fetched == {None, Priced(0)} \cup {Priced(x) : x \in PolledPrices}

\* the truth value Python gives to p: None and 0.0 are false
Truthy(p) == p # None /\ p.price # 0

\* market_info.get('volume', 0) if market_info else 0: no market info, or a
\* volume that passed the pre-flight check against MIN_VOLUME
MarketVolumes == {0, 5000}

\* where an iteration ended, if one has run
Outcome(iteration) ==
    IF "outcome" \in DOMAIN iteration THEN iteration.outcome ELSE "none"

\* an iteration that ended at `outcome` having fetched p, sized n contracts
\* and left `losses` at l; council is what decide returned, or None
Ended(outcome, p, n, l, council) ==
    [outcome |-> outcome, price |-> p, n |-> n, losses |-> l,
     council |-> council]

\* mutant: the loop left only when the counter is above the limit
no_price_above_limit(count) ==
    LET incremented == count + 1
    IN  [no_price_count |-> incremented,
         loop |-> IF incremented > MAX_NO_PRICE_COUNT THEN "halted"
                  ELSE "running"]

\* the branch `if not p`: the counter incremented, and the break when it has
\* reached the limit
no_price(count) ==
    LET incremented == count + 1
    IN  [no_price_count |-> incremented,
         loop |-> IF incremented >= MAX_NO_PRICE_COUNT THEN "halted"
                  ELSE "running"]

\* the dictionaries bot_v3 builds for the council and the timing optimizer
bot_v3_opportunity(p) ==
    [spread |-> 300, net_profit |-> 0, price |-> p,
     market_category |-> "sports", ai_score |-> 6500]
bot_v3_market_data(p, volume) ==
    [volatility |-> 800, volume_1h |-> volume, close_time_hours |-> 12 * One,
     orderbook |-> <<>>, recent_prices |-> <<p>>]
bot_v3_bot_state(l) ==
    [consecutive_losses |-> l, last_category |-> "sports"]

\* bot_v3 after a price p was fetched, with l losses so far: the minimum
\* price, the council, the timing optimizer, the Kelly position, the loss
\* gate, the net profit at the target price, and the order (buy_ok: whether
\* Kalshi.buy returns True)
bot_v3_iteration(rate, p, l, volume, hour, buy_ok) ==
    IF p < MIN_PRICE THEN Ended("below MIN_PRICE", p, 0, l, None)
    ELSE
    LET opportunity == bot_v3_opportunity(p)
        market_data == bot_v3_market_data(p, volume)
        council_decision == decide(opportunity, market_data,
                                   bot_v3_bot_state(l))
        timing_rec == get_execution_recommendation(opportunity, market_data,
                                                   hour)
        bet == get_bet_size(FromFixed(EDGE), FromFixed(p),
                            FromFixed(BANKROLL), Rat(25, 100))
        n   == IF p > 0 THEN PyInt(RDiv(bet.value, FromFixed(p))) ELSE 0
        uncapped == FMul(p, One + TARGET_RETURN_PCT)
        target_sell_price == IF uncapped < 9900 THEN uncapped ELSE 9900
        net_profit ==
            calculate_net_profit(rate, p, target_sell_price, n).net_profit
    IN  IF ~council_decision.execute
        THEN Ended("vetoed", p, 0, l, council_decision)
        ELSE IF ~timing_rec.execute_now
        THEN Ended("wait", p, 0, l, council_decision)
        ELSE IF bet.raised
        THEN Ended("Error", p, 0, l, council_decision)
        ELSE IF n > 0 /\ l < MAX_CONSECUTIVE_LOSSES
        THEN IF net_profit >= MIN_NET_PROFIT
             THEN IF buy_ok
                  THEN Ended("bought", p, n, 0, council_decision)
                  ELSE Ended("order failed", p, n, l + 1, council_decision)
             ELSE Ended("skip (fees)", p, n, l, council_decision)
        ELSE Ended(IF l >= MAX_CONSECUTIVE_LOSSES THEN "skip (breaker)"
                   ELSE "skip (small position)", p, n, l, council_decision)

\* mutant: the gate lets a buy through at the limit
bot_fixed_iteration_gate_inclusive(p, l, buy_ok) ==
    LET edge == Rat(5, 100)
        odds == RSub(RDiv(RInt(1), FromFixed(p)), RInt(1))
        kelly == RMin(RDiv(edge, odds), Rat(10, 100))
        bet   == RMul(kelly, Rat(2940, 100))
        n     == IF p > 0 THEN PyInt(RDiv(bet, FromFixed(p))) ELSE 0
    IN  IF odds.n = 0
        THEN Ended("Error", p, 0, l, None)
        ELSE IF n > 0 /\ l <= 3
        THEN IF buy_ok
             THEN Ended("bought", p, n, 0, None)
             ELSE Ended("order failed", p, n, l + 1, None)
        ELSE Ended(IF l >= 3 THEN "skip (breaker)"
                   ELSE "skip (small position)", p, n, l, None)

\* bot_fixed after a price p was fetched, with l losses so far: the Kelly
\* position (edge / ((1/p) - 1) raises ZeroDivisionError at p = 1.0, which
\* `except Exception` catches), the loss gate and the order
bot_fixed_iteration(p, l, buy_ok) ==
    LET edge == Rat(5, 100)
        odds == RSub(RDiv(RInt(1), FromFixed(p)), RInt(1))
        kelly == RMin(RDiv(edge, odds), Rat(10, 100))
        bet   == RMul(kelly, Rat(2940, 100))
        n     == IF p > 0 THEN PyInt(RDiv(bet, FromFixed(p))) ELSE 0
    IN  IF odds.n = 0
        THEN Ended("Error", p, 0, l, None)
        ELSE IF n > 0 /\ l < 3
        THEN IF buy_ok
             THEN Ended("bought", p, n, 0, None)
             ELSE Ended("order failed", p, n, l + 1, None)
        ELSE Ended(IF l >= 3 THEN "skip (breaker)"
                   ELSE "skip (small position)", p, n, l, None)

\* one pass through the body of `while True`: the price is fetched; without
\* one the counter goes up and the loop may break, with one the counter is
\* reset and the program trades or skips
loop_iteration ==
    /\ loop = "running"
    /\ \E p \in Fetched, volume \in MarketVolumes, hour \in Hours,
          buy_ok \in BOOLEAN :
          IF ~Truthy(p)
          THEN /\ no_price_count' = no_price(no_price_count).no_price_count
               /\ loop' = no_price(no_price_count).loop
               /\ losses' = losses
               /\ bot_last' = Ended("no price", p, 0, losses, None)
          ELSE LET ended == IF bot = "bot_v3"
                            THEN bot_v3_iteration(base_fee_rate, p.price,
                                                  losses, volume, hour, buy_ok)
                            ELSE bot_fixed_iteration(p.price, losses, buy_ok)
               IN  /\ no_price_count' = 0
                   /\ loop' = "running"
                   /\ losses' = ended.losses
                   /\ bot_last' = ended
    /\ bot' = bot

\* except KeyboardInterrupt: break
KeyboardInterrupt ==
    /\ loop = "running"
    /\ loop' = "stopped"
    /\ bot_last' = [outcome |-> "KeyboardInterrupt"]
    /\ UNCHANGED <<bot, no_price_count, losses>>

\* what the loop leaves alone
otherThanBot == <<feeVars, kellyVars, breakerVars, councilVars, timingVars>>

\* either program about to enter its loop, with the components bot_v3
\* constructs
InitLoop ==
    /\ FeeCalculator__init__(0)
    /\ kelly_last = NoCall
    /\ CircuitBreaker__init__(2000, 500 * One, 5)
    /\ AdvisersIdle
    /\ \E program \in Programs : LoopStart(program)

NextLoop ==
    \/ loop_iteration /\ UNCHANGED otherThanBot
    \/ KeyboardInterrupt /\ UNCHANGED otherThanBot

SpecLoop == InitLoop /\ [][NextLoop]_vars

---------------------------------------------------------------------------
(* Properties of the fee calculator *)

\* C1: the rate _get_base_fee_rate chooses (at construction and at every
\* update_volume) is a step function of the volume with inclusive lower
\* bounds: 0.035 from 25000, 0.045 in [10000, 25000), 0.055 in [2500, 10000)
\* and 0.070 below 2500, negative volumes included.
C1_FeeRateIsStepFunction ==
    last.op \in {"__init__", "update_volume"} =>
        LET v == last.args.volume_30d
            r == last.result.base_fee_rate
        IN  /\ v >= 25000 => r = 350
            /\ (10000 <= v /\ v < 25000) => r = 450
            /\ (2500 <= v /\ v < 10000) => r = 550
            /\ v < 2500 => r = 700

\* C1 witness: update_volume(25000), the inclusive bound of the lowest rate
C1_Witness ==
    /\ last.op = "update_volume"
    /\ last.args.volume_30d = 25000
    /\ last.result.base_fee_rate = 350

\* C2: calculate_trade_fee returns quantity x 1.00 x rate for a taker and
\* exactly half of that for a maker, whatever the price is: the fee is fixed
\* by the quantity, the rate and the maker flag alone.
C2_TradeFeeOnPayout ==
    last.op = "calculate_trade_fee" =>
        LET taker_fee == FMul(last.args.quantity * One, base_fee_rate)
        IN  IF last.args.is_maker
            THEN 2 * last.result.fee = taker_fee
            ELSE last.result.fee = taker_fee

\* C2 witness: a maker order for 10 contracts at $0.45 in the 7% tier costs
\* $0.35
C2_Witness ==
    /\ last.op = "calculate_trade_fee"
    /\ last.args = [price |-> 4500, quantity |-> 10, is_maker |-> TRUE]
    /\ base_fee_rate = 700
    /\ last.result.fee = 3500

\* C3: calculate_round_trip_fee charges the buy leg at the full rate and the
\* sell leg at half the rate, total_fees = buy_fee + sell_fee = 1.5 x rate x
\* quantity; at volume 0 that is 10.5% of the quantity, and buying 10 at 0.45
\* and selling at 0.50 gives buy_fee 0.70, sell_fee 0.35, net_profit -0.55.
C3_RoundTripBuyTakerSellMaker ==
    /\ last.op = "calculate_round_trip_fee" =>
        LET q == last.args.quantity
            r == last.result
        IN  /\ r.buy_fee = FMul(q * One, base_fee_rate)
            /\ 2 * r.sell_fee = FMul(q * One, base_fee_rate)
            /\ r.total_fees = r.buy_fee + r.sell_fee
            /\ 2 * r.total_fees = 3 * base_fee_rate * q
            /\ volume_30d = 0 => 1000 * r.total_fees = 105 * q * One
            /\ (volume_30d = 0 /\ last.args.buy_price = 4500
                  /\ last.args.sell_price = 5000 /\ q = 10)
               => (r.buy_fee = 7000 /\ r.sell_fee = 3500)
    /\ (last.op = "calculate_net_profit" /\ volume_30d = 0
          /\ last.args = [buy_price |-> 4500, sell_price |-> 5000, quantity |-> 10])
       => /\ last.result.fee_breakdown.buy_fee = 7000
          /\ last.result.fee_breakdown.sell_fee = 3500
          /\ last.result.net_profit = -5500

\* C3 witness: the round trip of the example, 10 contracts at volume 0
C3_Witness ==
    /\ last.op = "calculate_round_trip_fee"
    /\ volume_30d = 0
    /\ last.args = [buy_price |-> 4500, sell_price |-> 5000, quantity |-> 10]
    /\ last.result.total_fees = 10500

\* C4: in every result net profit is gross profit minus fees: in
\* calculate_net_profit with fees the round-trip total, in
\* calculate_arbitrage_profit with total_fees.
C4_NetIsGrossMinusFees ==
    /\ last.op = "calculate_net_profit" =>
        /\ last.result.net_profit = last.result.gross_profit - last.result.fees
        /\ last.result.fees = last.result.fee_breakdown.total_fees
    /\ last.op = "calculate_arbitrage_profit" =>
        last.result.net_profit = last.result.gross_profit - last.result.total_fees

\* C4 witness: a net profit result with a positive gross profit and fees that
\* turn it into a loss
C4_Witness ==
    /\ last.op = "calculate_net_profit"
    /\ last.result.gross_profit > 0
    /\ last.result.fees > last.result.gross_profit
    /\ last.result.net_profit < 0

\* C5: calculate_net_profit returns cost = buy_price x quantity, revenue =
\* sell_price x quantity and gross_profit = (sell_price - buy_price) x
\* quantity, whatever the fee tier.
C5_CostRevenueGross ==
    last.op = "calculate_net_profit" =>
        LET a == last.args
        IN  /\ last.result.cost = a.buy_price * a.quantity
            /\ last.result.revenue = a.sell_price * a.quantity
            /\ last.result.gross_profit = (a.sell_price - a.buy_price) * a.quantity

\* C5 witness: 100 contracts bought at $0.45 and sold at $0.52 in the lowest
\* fee tier: gross profit $7.00
C5_Witness ==
    /\ last.op = "calculate_net_profit"
    /\ last.args = [buy_price |-> 4500, sell_price |-> 5200, quantity |-> 100]
    /\ base_fee_rate = 350
    /\ last.result.gross_profit = 7 * One

\* C6: for prices >= 0 and quantity >= 0, calculate_arbitrage_profit returns
\* guaranteed_payout = quantity x 1.00, whatever the prices and the tier.
C6_GuaranteedPayout ==
    (/\ last.op = "calculate_arbitrage_profit"
     /\ last.args.yes_price >= 0
     /\ last.args.no_price >= 0
     /\ last.args.quantity >= 0)
    => last.result.guaranteed_payout = last.args.quantity * One

\* C6 witness: 10 contracts a side at prices that do not add up to $1.00
C6_Witness ==
    /\ last.op = "calculate_arbitrage_profit"
    /\ last.args = [yes_price |-> 4500, no_price |-> 5200, quantity |-> 10]
    /\ last.result.guaranteed_payout = 10 * One

\* C7: calculate_arbitrage_profit charges both legs at the full taker rate:
\* total_fees = 2 x rate x quantity for every pair of prices.
C7_ArbitrageBothLegsTaker ==
    last.op = "calculate_arbitrage_profit" =>
        last.result.total_fees = 2 * FMul(last.args.quantity * One, base_fee_rate)

\* C7 witness: 100 contracts a side in the 7% tier: $14.00 of fees
C7_Witness ==
    /\ last.op = "calculate_arbitrage_profit"
    /\ last.args.quantity = 100
    /\ last.args.yes_price # last.args.no_price
    /\ base_fee_rate = 700
    /\ last.result.total_fees = 14 * One

\* C8: is_profitable is exactly net_profit > 0; so for quantity >= 0 and any
\* tier, yes_price + no_price >= 1 gives is_profitable = False; YES 0.52 + NO
\* 0.50 at 100 contracts: total_cost 102, payout 100, gross -2, not profitable.
C8_ProfitableIffNetPositive ==
    last.op = "calculate_arbitrage_profit" =>
        LET a == last.args
            r == last.result
        IN  /\ r.is_profitable <=> (r.net_profit > 0)
            /\ (a.quantity >= 0 /\ a.yes_price + a.no_price >= One)
               => (r.gross_profit <= 0 /\ ~r.is_profitable)
            /\ a = [yes_price |-> 5200, no_price |-> 5000, quantity |-> 100]
               => /\ r.total_cost = 102 * One
                  /\ r.guaranteed_payout = 100 * One
                  /\ r.gross_profit = -2 * One
                  /\ ~r.is_profitable

\* C8 witness: the example pair, YES 0.52 + NO 0.50 at 100 contracts
C8_Witness ==
    /\ last.op = "calculate_arbitrage_profit"
    /\ last.args = [yes_price |-> 5200, no_price |-> 5000, quantity |-> 100]
    /\ last.result.gross_profit = -2 * One
    /\ ~last.result.is_profitable

\* C9: after construction and after any sequence of update_volume and
\* calculate_* calls, base_fee_rate is the tier rate of the current
\* volume_30d, one of 0.035, 0.045, 0.055, 0.070, and the maker rate that
\* calculate_round_trip_fee reports is exactly half of it.
C9_RateFollowsVolume ==
    /\ base_fee_rate \in {350, 450, 550, 700}
    /\ base_fee_rate > 0
    /\ base_fee_rate = (CASE volume_30d >= 25000 -> 350
                          [] volume_30d >= 10000 /\ volume_30d < 25000 -> 450
                          [] volume_30d >= 2500 /\ volume_30d < 10000 -> 550
                          [] volume_30d < 2500 -> 700)
    /\ last.op = "calculate_round_trip_fee" =>
        /\ last.result.fee_rate_buy = base_fee_rate
        /\ 2 * last.result.fee_rate_sell = base_fee_rate

\* C9 witness: a round trip priced after the volume was updated into the
\* 4.5% tier: maker rate 2.25%
C9_Witness ==
    /\ last.op = "calculate_round_trip_fee"
    /\ volume_30d = 10000
    /\ base_fee_rate = 450
    /\ last.result.fee_rate_sell = 225

\* the same calculator called with the same arguments
SameCall(c, d) == c.op = d.op /\ c.args = d.args

\* C10: the four calculators leave volume_30d and base_fee_rate unchanged
\* (update_volume alone changes them), so a calculator called again with the
\* same arguments, with no update_volume in between and whatever other
\* calculators were called in between, returns what it returned before.
C10_CalculatorsArePure ==
    [][ /\ last'.op \in CalculatorOps =>
             UNCHANGED <<volume_30d, base_fee_rate>>
        /\ (kept'.op \in CalculatorOps /\ SameCall(kept', last'))
             => last'.result = kept'.result ]_vars

\* C10 witness: a kept call, another calculator call after it, and then the
\* kept call made again
C10_Witness ==
    /\ kept.op = "calculate_net_profit"
    /\ kept.later = MaxLater
    /\ SameCall(kept, last)
    /\ last.result = kept.result

---------------------------------------------------------------------------
(* Properties of the Kelly sizing functions *)

\* a sizing function has been called
KellyCalled == kelly_last.op \in KellyOps

\* the price of the last sizing call lies strictly between 0 and 1
PriceInRange ==
    /\ RLt(RInt(0), kelly_last.args.market_price)
    /\ RLt(kelly_last.args.market_price, RInt(1))

\* the bankroll the last sizing call sized for (get_kelly_fraction sizes
\* for a bankroll of 1.0)
BankrollOfCall ==
    IF kelly_last.op = "get_kelly_fraction" THEN RInt(1)
    ELSE kelly_last.args.bankroll

\* C11: each of calculate_kelly_bet, get_kelly_fraction and get_bet_size
\* returns exactly 0 when price <= 0 or price >= 1, for every edge, bankroll
\* and max_fraction, without evaluating the division by the odds; the
\* division is evaluated only when 0 < price < 1, and the odds 1/price - 1
\* it divides by are then strictly positive.
C11_ZeroOutsideUnitInterval ==
    KellyCalled =>
        /\ ~PriceInRange =>
              /\ ~kelly_last.result.raised
              /\ kelly_last.result.value = RInt(0)
              /\ ~kelly_last.result.divided
        /\ kelly_last.result.divided =>
              /\ PriceInRange
              /\ RLt(RInt(0), kelly_last.result.odds)

\* get_bet_size at a price of exactly 1 with a positive edge and a bankroll of
\* $1000: zero returned, no division
C11_Witness ==
    /\ kelly_last.op = "get_bet_size"
    /\ kelly_last.args.market_price = RInt(1)
    /\ kelly_last.args.edge = Rat(1, 20)
    /\ kelly_last.args.bankroll = RInt(1000)
    /\ kelly_last.result.value = RInt(0)
    /\ ~kelly_last.result.divided

\* C12: the fraction get_kelly_fraction returns lies in [0, max_fraction]
\* for every edge (negative ones included), every price and every
\* configured cap.
C12_FractionWithinCap ==
    kelly_last.op = "get_kelly_fraction" =>
        /\ ~kelly_last.result.raised
        /\ RLeq(RInt(0), kelly_last.result.value)
        /\ RLeq(kelly_last.result.value, kelly_last.args.max_fraction)

\* a negative edge at a price inside (0, 1): the raw fraction is negative
\* and the fraction returned is 0
C12_Witness ==
    /\ kelly_last.op = "get_kelly_fraction"
    /\ PriceInRange
    /\ RLt(kelly_last.args.edge, RInt(0))
    /\ RLt(RInt(0), kelly_last.args.max_fraction)
    /\ kelly_last.result.divided
    /\ kelly_last.result.value = RInt(0)

Clamp(x, lo, hi) ==
    IF RLt(x, lo) THEN lo ELSE IF RLt(hi, x) THEN hi ELSE x

\* edge x price / (1 - price), for price # 1
RawKellyFraction(edge, price) ==
    RDiv(RMul(edge, price), RSub(RInt(1), price))

IsNumber(x) == x \in Int
FeeResultReturned ==
    CASE last.op = "calculate_trade_fee" -> IsNumber(last.result.fee)
      [] last.op = "calculate_round_trip_fee" ->
            /\ IsNumber(last.result.buy_fee)
            /\ IsNumber(last.result.sell_fee)
            /\ IsNumber(last.result.total_fees)
      [] last.op = "calculate_net_profit" ->
            /\ IsNumber(last.result.gross_profit)
            /\ IsNumber(last.result.fees)
            /\ IsNumber(last.result.net_profit)
      [] last.op = "calculate_arbitrage_profit" ->
            /\ IsNumber(last.result.net_profit)
            /\ last.result.is_profitable \in BOOLEAN
      [] OTHER -> IsNumber(last.result.base_fee_rate)

\* C15: neither calculator has an error outcome: on negative prices, prices
\* above 1, zero or negative quantities and a negative volume every
\* FeeCalculator operation and every sizing function returns a value and
\* none raises; a negative volume gets the highest fee tier (0.07) and a
\* price outside (0, 1) a bet of zero.
C15_NoErrorOutcome ==
    /\ FeeResultReturned
    /\ volume_30d < 0 => base_fee_rate = 700
    /\ KellyCalled =>
          /\ ~kelly_last.result.raised
          /\ ~PriceInRange => kelly_last.result.value = RInt(0)

\* a calculator of negative volume has priced a trade of -1 contracts at a
\* negative and an above-1 price, and a bet was sized at a price of 0
C15_Witness ==
    /\ volume_30d < 0
    /\ base_fee_rate = 700
    /\ last.op = "calculate_net_profit"
    /\ last.args.buy_price < 0
    /\ last.args.sell_price > One
    /\ last.args.quantity < 0
    /\ kelly_last.op = "get_bet_size"
    /\ kelly_last.args.market_price = RInt(0)
    /\ kelly_last.args.bankroll = RInt(1000)
    /\ kelly_last.result.value = RInt(0)

---------------------------------------------------------------------------
(* Properties of the 1% target *)

\* the last call was calculate_net_profit for a position of at least one
\* contract bought inside (0, 1) and sold 1% higher
AtOnePercentTarget ==
    /\ last.op = "calculate_net_profit"
    /\ last.args.quantity >= 1
    /\ last.args.buy_price > 0
    /\ last.args.buy_price < One
    /\ last.args.sell_price = FMul(last.args.buy_price, TargetFactor)

\* the net profit of n contracts bought at price and sold 1% higher
NetAtTarget(price, n) ==
    calculate_net_profit(base_fee_rate, price, FMul(price, TargetFactor),
                         n).net_profit

---------------------------------------------------------------------------
(* Properties of the circuit breaker *)

\* the number of losses (pnl < 0) in a row at the end of a list of trades
RECURSIVE LossRun(_)
LossRun(seq) ==
    IF seq = <<>> \/ seq[Len(seq)] >= 0 THEN 0
    ELSE 1 + LossRun(SubSeq(seq, 1, Len(seq) - 1))

\* some trade of the list completed limit losses in a row
CompletedRun(seq, limit) ==
    \E i \in 1 .. Len(seq) : LossRun(SubSeq(seq, 1, i)) >= limit

\* C19: from a fresh or reset breaker and under record_trade calls only,
\* record_trade returns True, with is_halted True, exactly when the trade
\* completes max_consecutive_losses (or more) negative trades in a row; a
\* trade with pnl >= 0 (0 included) sets consecutive_losses to 0 and returns
\* False; the breaker is halted only if some trade completed such a run, so
\* fewer losses in a row never halt.
C19_HaltsExactlyAtLimit ==
    /\ consecutive_losses = LossRun(trades)
    /\ is_halted <=> CompletedRun(trades, max_consecutive_losses)
    /\ cb_last.op = "record_trade" =>
          /\ cb_last.result <=> (LossRun(trades) >= max_consecutive_losses)
          /\ cb_last.result => is_halted
          /\ cb_last.args.pnl >= 0 =>
                (consecutive_losses = 0 /\ ~cb_last.result)

\* limit 3: a loss, a break-even trade, then three losses; the fifth trade
\* returns True and halts, and no trade before it did
C19_Witness ==
    /\ max_consecutive_losses = 3
    /\ trades = <<-50 * One, 0, -50 * One, -50 * One, -50 * One>>
    /\ cb_last.op = "record_trade"
    /\ cb_last.result
    /\ is_halted
    /\ ~CompletedRun(SubSeq(trades, 1, 4), max_consecutive_losses)

\* C20: the halt is a latch: is_halted goes from True to False in a reset()
\* step only, so it stays True under check_drawdown, check_daily_loss,
\* record_trade (winning trades included) and status; and reset() leaves
\* the initial state: is_halted False, halt_reason None, consecutive_losses
\* 0, daily_pnl empty.
C20_HaltIsLatch ==
    [][ /\ (is_halted /\ ~is_halted') => cb_last'.op = "reset"
        /\ (is_halted /\ cb_last'.op \in BreakerOps \ {"reset"}) => is_halted'
        /\ cb_last'.op = "reset" =>
              /\ is_halted' = FALSE
              /\ halt_reason' = None
              /\ consecutive_losses' = 0
              /\ daily_pnl' = EmptyDict ]_vars

\* a breaker halted by consecutive losses has recorded a winning trade after
\* the halt: the counter is back to 0 and the breaker is still halted
C20_Witness ==
    /\ is_halted
    /\ halt_reason.kind = "consecutive losses"
    /\ cb_last.op = "record_trade"
    /\ cb_last.args.pnl > 0
    /\ ~cb_last.result
    /\ consecutive_losses = 0

\* the total of a date in a dict of daily totals, 0 for a date not in it
TotalOf(dict, date) == IF date \in DOMAIN dict THEN dict[date] ELSE 0

\* C21: check_daily_loss(date, amount) adds amount to the total of that date
\* and leaves the totals of all other dates as they are; it halts and
\* returns True exactly when the new total of the date is strictly below
\* -max_daily_loss.  check_drawdown halts and returns True exactly when
\* current_drawdown is strictly greater than max_drawdown, and otherwise
\* changes no field.
C21_DailyLossAndDrawdown ==
    [][ /\ cb_last'.op = "check_daily_loss" =>
              LET date   == cb_last'.args.date
                  amount == cb_last'.args.loss
              IN  /\ DOMAIN daily_pnl' = DOMAIN daily_pnl \cup {date}
                  /\ daily_pnl'[date] = TotalOf(daily_pnl, date) + amount
                  /\ \A d \in DOMAIN daily_pnl \ {date} :
                        daily_pnl'[d] = daily_pnl[d]
                  /\ cb_last'.result <=>
                        (TotalOf(daily_pnl, date) + amount < -max_daily_loss)
                  /\ cb_last'.result =>
                        (is_halted' /\ halt_reason'.kind = "daily loss limit hit")
                  /\ ~cb_last'.result => UNCHANGED <<is_halted, halt_reason>>
        /\ cb_last'.op = "check_drawdown" =>
              /\ cb_last'.result <=>
                    (cb_last'.args.current_drawdown > max_drawdown)
              /\ cb_last'.result =>
                    (is_halted' /\ halt_reason'.kind = "max drawdown exceeded")
              /\ ~cb_last'.result =>
                    UNCHANGED <<max_drawdown, max_daily_loss,
                                max_consecutive_losses, is_halted, halt_reason,
                                consecutive_losses, daily_pnl>> ]_vars

\* the third loss of $250 on one date brings its total to -$750, below the
\* limit of -$500, and halts, while the other date still stands at -$500,
\* which did not halt
C21_Witness ==
    /\ cb_last.op = "check_daily_loss"
    /\ cb_last.result
    /\ DOMAIN daily_pnl = Dates
    /\ daily_pnl[cb_last.args.date] = -750 * One
    /\ \E d \in Dates \ {cb_last.args.date} : daily_pnl[d] = -500 * One
    /\ max_daily_loss = 500 * One
    /\ halt_reason = [kind |-> "daily loss limit hit", value |-> -750 * One]

\* C22: in every state reached by check_drawdown, check_daily_loss,
\* record_trade, status and reset calls, is_halted is True if and only if
\* halt_reason is not None, and for max_consecutive_losses >= 1 a counter
\* consecutive_losses >= max_consecutive_losses implies is_halted.
C22_HaltedIffReason ==
    /\ is_halted <=> (halt_reason # None)
    /\ (max_consecutive_losses >= 1
          /\ consecutive_losses >= max_consecutive_losses) => is_halted

\* two losses against a limit of 2: the counter is at the limit and the
\* breaker is halted with the reason of the losses
C22_Witness ==
    /\ max_consecutive_losses = 2
    /\ consecutive_losses = 2
    /\ is_halted
    /\ halt_reason = [kind |-> "consecutive losses", value |-> 2]

---------------------------------------------------------------------------
(* Properties of the agent council *)

\* ten times the weighted sum of the votes a decide call reports:
\* 1.5 x Risk + 2.0 x Value + 1.0 x Timing + 1.2 x Sentiment, times 10
TenfoldWeightedVotes(votes) ==
    15 * Vote[votes.RiskAgent] + 20 * Vote[votes.ValueAgent]
      + 10 * Vote[votes.TimingAgent] + 12 * Vote[votes.SentimentAgent]

\* C26: decide returns execute = True if and only if the weighted sum of
\* the votes (values in -2..2, weights 1.5, 2.0, 1.0, 1.2) divided by the
\* total weight 5.7 is strictly greater than 0.5; the confidence returned
\* is |score| / 2 and lies in [0, 1], for every combination of votes.
C26_ExecuteIffScoreAboveHalf ==
    council_last.op = "decide" =>
        LET r  == council_last.result
            ws == TenfoldWeightedVotes(r.votes)
        IN  /\ \A a \in DOMAIN r.votes : Vote[r.votes[a]] \in -2 .. 2
            /\ r.execute <=> (2 * ws > 57)
            /\ r.confidence = Rat(Abs(ws), 114)
            /\ RLeq(RInt(0), r.confidence)
            /\ RLeq(r.confidence, RInt(1))

\* the real agents vote YES, YES, ABSTAIN, ABSTAIN: the score is 3.5 / 5.7,
\* above 0.5 (the plain average of the votes is exactly 0.5), and the
\* council executes
C26_Witness ==
    /\ council_last.op = "decide"
    /\ "opportunity" \in DOMAIN council_last.args
    /\ council_last.result.votes =
          [RiskAgent |-> "YES", ValueAgent |-> "YES", TimingAgent |-> "ABSTAIN",
           SentimentAgent |-> "ABSTAIN"]
    /\ council_last.result.execute
    /\ council_last.result.confidence = Rat(35, 114)

---------------------------------------------------------------------------
(* Properties of the timing optimizer *)

\* whether the last timing call said to execute now
ExecuteNow ==
    IF timing_last.op = "should_execute_now" THEN timing_last.result
    ELSE timing_last.result.execute_now

\* C27: whenever time_to_close < 1 hour, the delay of rule_based_timing is 0
\* and should_execute_now / execute_now is True, whatever the spread, the
\* last-hour volume, the hour of the day and the volatility are; and in all
\* cases the delay lies in 0..300 seconds.
C27_ActsFastNearExpiry ==
    timing_last.op \in {"should_execute_now", "get_execution_recommendation"} =>
        /\ timing_last.delay \in 0 .. 300
        /\ timing_last.features.time_to_close < One =>
              (timing_last.delay = 0 /\ ExecuteNow)

---------------------------------------------------------------------------
(* Properties of the poll loops *)

\* whether an iteration called Kalshi.buy
BuyAttempted(iteration) ==
    Outcome(iteration) \in {"bought", "order failed"}

\* whether an iteration fetched a price
PricedPoll(iteration) ==
    Outcome(iteration) \notin {"none", "no price", "KeyboardInterrupt"}

\* C23: in bot_v3 and in bot_fixed the loop breaks on missing prices exactly
\* when no_price_count reaches the limit (MAX_NO_PRICE_COUNT, 30): every poll
\* without a price adds one to the counter, every poll with a price sets it
\* to 0, the loop is left that way only by the poll that brings the counter
\* from limit - 1 to the limit, and the counter stays within 0..limit.
C23_HaltsAtNoPriceLimit ==
    [][ /\ no_price_count' \in 0 .. MAX_NO_PRICE_COUNT
        /\ (loop' = "halted") <=> (no_price_count' = MAX_NO_PRICE_COUNT)
        /\ Outcome(bot_last') = "no price" =>
              no_price_count' = no_price_count + 1
        /\ PricedPoll(bot_last') => no_price_count' = 0
        /\ (loop = "running" /\ loop' = "halted") =>
              /\ Outcome(bot_last') = "no price"
              /\ no_price_count = MAX_NO_PRICE_COUNT - 1
      ]_vars

\* bot_v3 has left its loop after the thirtieth poll in a row without a price
C23_Witness ==
    /\ bot = "bot_v3"
    /\ loop = "halted"
    /\ no_price_count = MAX_NO_PRICE_COUNT
    /\ Outcome(bot_last) = "no price"

\* C24: in bot_v3 and in bot_fixed `losses` counts the failed orders in a
\* row: it goes up by one on a failed buy and on nothing else, it goes to 0
\* on a successful buy and on nothing else, and with losses at the limit
\* (MAX_CONSECUTIVE_LOSSES, 3) no buy is attempted.
C24_LossesCountFailedOrders ==
    [][ /\ losses' \in 0 .. MAX_CONSECUTIVE_LOSSES
        /\ Outcome(bot_last') = "order failed" => losses' = losses + 1
        /\ Outcome(bot_last') = "bought" => losses' = 0
        /\ ~BuyAttempted(bot_last') => losses' = losses
        /\ losses >= MAX_CONSECUTIVE_LOSSES =>
              (~BuyAttempted(bot_last') /\ losses' = losses)
      ]_vars

\* bot_fixed after three failed orders in a row: a price of $0.50 sizes two
\* contracts and the iteration skips the buy
C24_Witness ==
    /\ bot = "bot_fixed"
    /\ losses = MAX_CONSECUTIVE_LOSSES
    /\ Outcome(bot_last) = "skip (breaker)"
    /\ bot_last.price = 5000
    /\ bot_last.n = 2

\* whether the last iteration of bot_v3 asked the council
CouncilAsked ==
    /\ bot = "bot_v3"
    /\ PricedPoll(bot_last)
    /\ Outcome(bot_last) # "below MIN_PRICE"

\* C25: the order placement of bot_v3 can be reached: once the loop asks the
\* council, there is a price p >= MIN_PRICE (whole cents up to $1.00) and a
\* loss count below MAX_CONSECUTIVE_LOSSES for which decide, called with the
\* dictionaries the loop builds, returns execute = True.
C25_OrderPlacementReachable ==
    CouncilAsked =>
        \E p \in CentPrices \cup {One}, l \in 0 .. MAX_CONSECUTIVE_LOSSES - 1,
           volume \in MarketVolumes :
            /\ p >= MIN_PRICE
            /\ decide(bot_v3_opportunity(p), bot_v3_market_data(p, volume),
                      bot_v3_bot_state(l)).execute

\* what the loop of bot_v3 does instead: every priced poll ends below the
\* minimum price or at the council's veto, and losses stays 0
bot_v3_NeverOrders ==
    bot = "bot_v3" =>
        /\ Outcome(bot_last) \in {"none", "no price", "KeyboardInterrupt",
                                  "below MIN_PRICE", "vetoed"}
        /\ losses = 0

===========================================================================
